---- MODULE Spec2Model ----
(***************************************************************************)
(* Model of the octarine-navis plugin: Viewer.add_neurons (__init__.py)    *)
(* and the converters neuron2gfx, skeleton2gfx, mesh2gfx, voxel2gfx,       *)
(* dotprop2gfx and connectors2gfx (objects.py).                            *)
(*                                                                         *)
(* One behaviour is one call.  The call's arguments are fixed in the       *)
(* initial state; the actions are the successive steps of the call.        *)
(* Libraries outside the repository (navis, octarine, pygfx, numpy) are    *)
(* modelled by what the plugin hands to them and reads from them:          *)
(*   - a coordinate is one integer (a point of space), a row of NaNs is    *)
(*     the integer NaN;                                                    *)
(*   - a colour is a record [rgb, a]; a colour-map entry is either flat    *)
(*     (ndim = 1, one row) or per vertex (ndim = 2, one row per vertex);   *)
(*   - uuid.uuid4() returns a value never returned before;                 *)
(*   - a visual is a record of what the constructor was given plus the     *)
(*     attributes the plugin sets on it.                                   *)
(***************************************************************************)
EXTENDS Integers, Sequences, FiniteSets, TLC

VARIABLES
    x,        \* the input as the current function sees it: [form, items]
    kw,       \* the keyword arguments of the call
    pc,       \* where the call is
    colormap, \* neuron2gfx: the resolved colour map (one entry per neuron)
    i,        \* neuron2gfx: index of the next neuron of the loop
    visuals,  \* neuron2gfx: the list of visuals built so far / returned
    uuids,    \* number of uuid4() values drawn so far
    calls,    \* history: the library and converter calls made, in order
    log,      \* warnings emitted (warnings.warn and navis.config.logger)
    err,      \* the exception that ended the call, "none" otherwise
    scene,    \* the viewer's scene: objects added and not cleared
    events,   \* history: what the viewer was asked to do, in order
    k         \* add_neurons: index of the next visual to insert

vars == <<x, kw, pc, colormap, i, visuals, uuids, calls, log, err, scene, events, k>>

----------------------------------------------------------------------------
(* Bounds of the model *)

\* longest neuron list of the batch specification
MaxBatch == 2
\* most path segments of a generated skeleton
MaxSegs == 2
\* most nodes of one path segment of a generated skeleton
MaxSegLen == 3
\* most connectors of a generated skeleton
MaxConn == 3
\* most somas a generated skeleton reports (and nodes of the long skeleton)
MaxSomas == 11

(* Program constants *)

\* the not-a-number break row
NaN == -1
\* soma counts from here on are taken for a detection error
SomaLimit == 10
\* the value standing for Python's None in a list of soma node ids
None == 0

----------------------------------------------------------------------------
(* Sequence helpers *)

RECURSIVE Concat(_)
Concat(ss) == IF ss = <<>> THEN <<>> ELSE Head(ss) \o Concat(Tail(ss))

RECURSIVE SumLen(_)
SumLen(ss) == IF ss = <<>> THEN 0 ELSE Len(Head(ss)) + SumLen(Tail(ss))

Range(s) == {s[n] : n \in DOMAIN s}

Min(a, b) == IF a < b THEN a ELSE b

\* s[keep]: the elements of s whose index the boolean mask keeps, in order
SelectIdx(s, keep) ==
    LET RECURSIVE Go(_)
        Go(n) == IF n > Len(s) THEN <<>>
                 ELSE (IF keep[n] THEN <<s[n]>> ELSE <<>>) \o Go(n + 1)
    IN Go(1)

\* pandas Series.unique(): the distinct values in order of first appearance
Unique(s) == SelectIdx(s, [n \in DOMAIN s |-> \A m \in 1..(n - 1) : s[m] # s[n]])

----------------------------------------------------------------------------
(* The neuron data model (navis), as far as the plugin reads it *)

Neuron(kind, id, nodes, segments, soma, connectors, faces, vertices, points) ==
    [kind |-> kind, id |-> id, nodes |-> nodes, segments |-> segments,
     soma |-> soma, connectors |-> connectors, faces |-> faces,
     vertices |-> vertices, points |-> points]

\* Node ids are 1..Len(nodes); nodes[n] is the position of node n.
NodePos(n) == 10 * n

\* Segment s of a skeleton whose segments have the lengths lens: the first is
\* a path ending at the root (node 1); every further one is a path of fresh
\* nodes ending at the root.
SegNodes(lens, s) ==
    LET first == 1 + SumLen([m \in 1..(s - 1) |-> [q \in 1..(lens[m] - 1) |-> 0]])
    IN IF s = 1 THEN [q \in 1..lens[1] |-> lens[1] + 1 - q]
       ELSE [q \in 1..lens[s] |-> IF q = lens[s] THEN 1 ELSE first + lens[s] - q]

NumNodes(lens) == 1 + SumLen([m \in 1..Len(lens) |-> [q \in 1..(lens[m] - 1) |-> 0]])

\* Connector m of nc: types alternate, owning nodes go round the skeleton.
Connectors(nc, nnodes) ==
    [m \in 1..nc |-> [type |-> (m - 1) % 2,
                      node_id |-> IF nnodes = 0 THEN 1 ELSE ((m - 1) % nnodes) + 1,
                      pos |-> 100 + m]]

\* neuron.soma through make_iterable: <<None>> when the skeleton has no soma
Somas(ns) == IF ns = 0 THEN <<None>> ELSE [m \in 1..ns |-> m]

TreeNeuron(id, lens, ns, nc) ==
    LET n == IF lens = <<>> THEN 0 ELSE NumNodes(lens)
    IN Neuron("TreeNeuron", id, [q \in 1..n |-> NodePos(q)],
              [s \in 1..Len(lens) |-> SegNodes(lens, s)],
              Somas(ns), Connectors(nc, n), 0, 0, <<>>)

MeshNeuron(id, faces, nc) ==
    Neuron("MeshNeuron", id, <<>>, <<>>, <<None>>, Connectors(nc, 0), faces,
           IF faces = 0 THEN 0 ELSE faces + 2, <<>>)

Dotprops(id, np) ==
    Neuron("Dotprops", id, <<>>, <<>>, <<None>>, <<>>, 0, 0,
           [q \in 1..np |-> NodePos(q)])

VoxelNeuron(id, nc) ==
    Neuron("VoxelNeuron", id, <<>>, <<>>, <<None>>, Connectors(nc, 0), 0, 2, <<>>)

\* a BaseNeuron subclass that is none of the four kinds
OtherNeuron(id) ==
    Neuron("BaseNeuron", id, <<>>, <<>>, <<None>>, <<>>, 0, 0, <<>>)

has_connectors(neuron) == neuron.connectors # <<>>

\* NeuronList.is_degenerated: some id occurs twice
is_degenerated(items) ==
    \E a, b \in DOMAIN items : a # b /\ items[a].id = items[b].id

\* number of vertices vertex_colors() colours for a neuron
NumVertices(neuron) ==
    CASE neuron.kind = "TreeNeuron" -> Len(neuron.nodes)
      [] neuron.kind = "Dotprops"   -> Len(neuron.points)
      [] OTHER                      -> neuron.vertices

----------------------------------------------------------------------------
(* Colours *)

Color(rgb, a) == [rgb |-> rgb, a |-> a]

\* a colour-map entry: np.ndarray of ndim 1 (one colour) or 2 (one per vertex)
Flat(c) == [ndim |-> 1, rows |-> <<c>>]
PerVertex(rows) == [ndim |-> 2, rows |-> rows]

\* navis prepare_colormap(): one flat colour per neuron of the list
prepare_colormap(items) ==
    [n \in DOMAIN items |-> Flat(Color(n, 1))]

\* navis vertex_colors(): one array per neuron, one row per vertex
vertex_colors(items) ==
    [n \in DOMAIN items |->
        PerVertex([v \in 1..NumVertices(items[n]) |-> Color(10 * n + v, 1)])]

\* vertex_colors(..., use_alpha=True): the alpha channel carries the value
alpha_colors(items) ==
    [n \in DOMAIN items |->
        PerVertex([v \in 1..NumVertices(items[n]) |-> Color(0, 2 + v)])]

\* zip(colormap, alphamap): flat colours are tiled to the vertex count and
\* the alpha column is overwritten from the alpha map
MergeAlpha(cmap, amap) ==
    [n \in 1..Min(Len(cmap), Len(amap)) |->
        LET c == IF cmap[n].ndim = 2 THEN cmap[n].rows
                 ELSE [v \in 1..Len(amap[n].rows) |-> cmap[n].rows[1]]
        IN PerVertex([v \in 1..Len(c) |-> Color(c[v].rgb, amap[n].rows[v].a)])]

\* the colour map neuron2gfx resolves for the list
ResolveColormap(items, args) ==
    LET base == IF args.color_by THEN vertex_colors(items)
                ELSE prepare_colormap(items)
    IN IF args.shade_by THEN MergeAlpha(base, alpha_colors(items)) ELSE base

\* the library calls made while resolving, in order
ResolveCalls(args) ==
    <<[fn |-> IF args.color_by THEN "vertex_colors" ELSE "prepare_colormap",
       pos |-> 0]>>
    \o (IF args.shade_by THEN <<[fn |-> "vertex_colors", pos |-> 0]>> ELSE <<>>)

----------------------------------------------------------------------------
(* Visuals *)

\* what a converter returns: the visuals, the warnings it logged, the
\* exception it raised ("none" when it returned)
Result(prims, warns, e) == [prims |-> prims, warns |-> warns, err |-> e]

Warn(what, pos) == [what |-> what, pos |-> pos]

\* a pygfx object with the attributes the plugin sets on it; `geometry` is
\* FALSE when the constructor was given no coordinates; `pos` is the place
\* of the source neuron in the list (the _object back-reference)
Visual(type, part, neuron, object_id, pos, geometry, coords, colors) ==
    [type |-> type, object_type |-> "neuron", neuron_part |-> part,
     neuron_id |-> neuron.id, object_id |-> object_id, pos |-> pos,
     geometry |-> geometry, coords |-> coords, colors |-> colors]

\* np.vstack([np.append(t, [[None] * n], axis=0) for t in segs])
AppendBreaks(segs, break) ==
    Concat([s \in DOMAIN segs |-> Append(segs[s], break)])

\* navis segments_to_coords(neuron, neuron.segments): per segment, the
\* positions of its nodes
segments_to_coords(neuron) ==
    [s \in DOMAIN neuron.segments |->
        [q \in DOMAIN neuron.segments[s] |-> neuron.nodes[neuron.segments[s][q]]]]

\* segments_to_coords(..., node_colors=c): per segment, the colours of its nodes
segments_to_colors(neuron, rows) ==
    [s \in DOMAIN neuron.segments |->
        [q \in DOMAIN neuron.segments[s] |->
            IF neuron.segments[s][q] \in DOMAIN rows
            THEN rows[neuron.segments[s][q]] ELSE Color(NaN, NaN)]]

----------------------------------------------------------------------------
(* The per-kind converters *)

\* the soma spheres of a skeleton: one gfx.Mesh per soma that is not None,
\* at the soma node's position, coloured by that node's colour when the
\* colours are per vertex
SomaVisuals(neuron, neuron_color, object_id, pos) ==
    LET valid == SelectIdx(neuron.soma,
                           [n \in DOMAIN neuron.soma |-> neuron.soma[n] # None])
    IN [n \in DOMAIN valid |->
          LET s == valid[n]
              soma_color == IF neuron_color.ndim > 1 THEN neuron_color.rows[s]
                            ELSE neuron_color.rows[1]
          IN Visual("Sphere", "soma", neuron, object_id, pos, TRUE,
                    <<neuron.nodes[s]>>, <<soma_color>>)]

\* vertex_colors: the flattened per-vertex colours with a break row after
\* each segment (skeleton2gfx computes them and passes neuron_color on)
FlattenColors(neuron, neuron_color) ==
    AppendBreaks(segments_to_colors(neuron, neuron_color.rows), Color(NaN, NaN))

\* the line visual of a skeleton: lines2gfx(coords, linewidth, color=neuron_color)
NeuriteLine(neuron, neuron_color, object_id, pos) ==
    Visual("Line", "neurites", neuron, object_id, pos, TRUE,
           AppendBreaks(segments_to_coords(neuron), NaN), neuron_color.rows)

\* mutant of TooManySomas: the limit itself is let through
TooManySomasAbove(soma) == Len(soma) > SomaLimit
\* if len(soma) >= 10
TooManySomas(soma) == Len(soma) >= SomaLimit

\* the soma part of skeleton2gfx
SomaPart(neuron, neuron_color, object_id, pos, args) ==
    IF ~args.soma THEN Result(<<>>, <<>>, "none")
    ELSE IF TooManySomas(neuron.soma)
         THEN Result(<<>>, <<Warn("many_somas", pos)>>, "none")
         ELSE Result(SomaVisuals(neuron, neuron_color, object_id, pos), <<>>, "none")

\* neuron.nodes.empty; neuron.nodes.shape[0] == 1
NodesEmpty(neuron) == Len(neuron.nodes) = 0
\* mutant of SingleNode: single-node skeletons are not singled out
SingleNodeNever(neuron) == FALSE
SingleNode(neuron) == Len(neuron.nodes) = 1

skeleton2gfx(neuron, neuron_color, object_id, pos, args) ==
    IF NodesEmpty(neuron)
    THEN Result(<<>>, <<Warn("no_nodes", pos)>>, "none")
    ELSE IF SingleNode(neuron)
    THEN Result(<<>>, <<Warn("single_node", pos)>>, "none")
    ELSE IF args.connectors_only THEN Result(<<>>, <<>>, "none")
    ELSE LET somas == SomaPart(neuron, neuron_color, object_id, pos, args)
         IN Result(<<NeuriteLine(neuron, neuron_color, object_id, pos)>>
                       \o somas.prims,
                   somas.warns, "none")

mesh2gfx(neuron, neuron_color, object_id, pos) ==
    IF neuron.faces = 0 THEN Result(<<>>, <<>>, "none")
    ELSE Result(<<Visual("Mesh", "neurites", neuron, object_id, pos, TRUE,
                         <<>>, neuron_color.rows)>>, <<>>, "none")

voxel2gfx(neuron, neuron_color, object_id, pos) ==
    Result(<<Visual("Volume", "neurites", neuron, object_id, pos, TRUE,
                    <<>>, neuron_color.rows)>>, <<>>, "none")

\* Dotprops.to_skeleton(): every point becomes a two-node segment
to_skeleton(neuron) ==
    LET np == Len(neuron.points)
    IN Neuron("TreeNeuron", neuron.id,
              [q \in 1..(2 * np) |-> neuron.points[(q + 1) \div 2] + (q % 2)],
              [s \in 1..np |-> <<2 * s - 1, 2 * s>>],
              <<None>>, neuron.connectors, 0, 0, <<>>)

dotprop2gfx(neuron, neuron_color, object_id, pos, args) ==
    IF Len(neuron.points) = 0 THEN Result(<<>>, <<>>, "none")
    ELSE skeleton2gfx(to_skeleton(neuron), neuron_color, object_id, pos, args)

\* navis.conversion.tree2meshneuron(): one tube per edge of the skeleton;
\* neuron2gfx carries the connectors over
tree2meshneuron(neuron) ==
    LET edges == IF Len(neuron.nodes) = 0 THEN 0 ELSE Len(neuron.nodes) - 1
    IN Neuron("MeshNeuron", neuron.id, <<>>, <<>>, <<None>>, neuron.connectors,
              edges, IF edges = 0 THEN 0 ELSE edges + 2, <<>>)

----------------------------------------------------------------------------
(* The connector converter *)

\* navis.config.default_connector_colors["display"]
default_display == "lines"

\* cn_lay["display"] after cn_lay.update(synapse_layout): the caller's
\* display when the layout names one, the default otherwise
DisplayMode(synapse_layout) ==
    IF synapse_layout \in {"absent", "empty"} THEN default_display
    ELSE synapse_layout

\* the colour of the connectors of type j
ConnectorColor(j, neuron_color, args) ==
    IF args.cn_colors = "neuron" THEN neuron_color.rows
    ELSE <<Color(200 + j, 1)>>

\* neuron.connectors[neuron.connectors.type == j]
ThisCn(neuron, j) ==
    SelectIdx(neuron.connectors,
              [m \in DOMAIN neuron.connectors |-> neuron.connectors[m].type = j])

\* coords: np.hstack((pos, tn_coords, nan)).reshape((len(pos) * 3, 3))
\* (connectors2gfx computes them and calls lines2gfx without them)
ConnectorLineCoords(neuron, this_cn) ==
    Concat([m \in DOMAIN this_cn |->
               <<this_cn[m].pos, neuron.nodes[this_cn[m].node_id], NaN>>])

\* the branches of the display mode
PointsMode(mode, neuron) == mode = "circles" \/ neuron.kind = "MeshNeuron"
\* mutant of LinesMode: every mode that is not drawn as points is drawn as
\* lines
LinesModeAny(mode) == TRUE
LinesMode(mode) == mode = "lines"

\* one pass of the loop over the connector types
ConnectorVisual(neuron, neuron_color, object_id, pos, args, j, lines_ok) ==
    LET this_cn == ThisCn(neuron, j)
        color   == ConnectorColor(j, neuron_color, args)
        mode    == DisplayMode(args.synapse_layout)
    IN IF PointsMode(mode, neuron)
       THEN Result(<<Visual("Points", "connectors", neuron, object_id, pos, TRUE,
                            [m \in DOMAIN this_cn |-> this_cn[m].pos], color)>>,
                   <<>>, "none")
       ELSE IF LinesMode(mode)
       THEN IF neuron.kind # "TreeNeuron"
            THEN Result(<<>>, <<>>, "AttributeError")
            ELSE IF \E m \in DOMAIN this_cn :
                        this_cn[m].node_id \notin DOMAIN neuron.nodes
            THEN Result(<<>>, <<>>, "KeyError")
            \* lines2gfx(linewidth=..., color=color): no coordinates are
            \* passed; the library either refuses the call or builds a line
            \* without them
            ELSE IF lines_ok
            THEN Result(<<Visual("Line", "connectors", neuron, object_id, pos,
                                 FALSE, <<>>, color)>>, <<>>, "none")
            ELSE Result(<<>>, <<>>, "TypeError")
       ELSE Result(<<>>, <<>>, "ValueError")

connectors2gfx(neuron, neuron_color, object_id, pos, args, lines_ok) ==
    \* cn_lay.update(None) raises
    IF args.synapse_layout = "None" THEN Result(<<>>, <<>>, "TypeError")
    ELSE LET types == Unique([m \in DOMAIN neuron.connectors |->
                                 neuron.connectors[m].type])
             each  == [t \in DOMAIN types |->
                          ConnectorVisual(neuron, neuron_color, object_id, pos,
                                          args, types[t], lines_ok)]
             bad   == {t \in DOMAIN types : each[t].err # "none"}
         IN IF bad # {}
            THEN Result(<<>>, <<>>, each[CHOOSE t \in bad : \A u \in bad : t <= u].err)
            ELSE Result(Concat([t \in DOMAIN types |-> each[t].prims]), <<>>, "none")

----------------------------------------------------------------------------
(* One pass of the loop of neuron2gfx *)

Call(fn, pos) == [fn |-> fn, pos |-> pos]

\* the neuron the pass works on: a skeleton becomes a mesh under `radius`
Radiused(neuron, args) ==
    IF args.radius /\ neuron.kind = "TreeNeuron" THEN tree2meshneuron(neuron)
    ELSE neuron

\* the per-kind dispatch
Dispatch(neuron, neuron_color, object_id, pos, args) ==
    CASE neuron.kind = "TreeNeuron"  ->
             skeleton2gfx(neuron, neuron_color, object_id, pos, args)
      [] neuron.kind = "MeshNeuron"  -> mesh2gfx(neuron, neuron_color, object_id, pos)
      [] neuron.kind = "Dotprops"    ->
             dotprop2gfx(neuron, neuron_color, object_id, pos, args)
      [] neuron.kind = "VoxelNeuron" -> voxel2gfx(neuron, neuron_color, object_id, pos)
      [] OTHER -> Result(<<>>, <<Warn("skipping_type", pos)>>, "none")

DispatchCall(neuron, pos) ==
    CASE neuron.kind = "TreeNeuron"  -> <<Call("skeleton2gfx", pos)>>
      [] neuron.kind = "MeshNeuron"  -> <<Call("mesh2gfx", pos)>>
      [] neuron.kind = "Dotprops"    -> <<Call("dotprop2gfx", pos)>>
      [] neuron.kind = "VoxelNeuron" -> <<Call("voxel2gfx", pos)>>
      [] OTHER -> <<>>

WantConnectors(neuron, args) ==
    (args.connectors \/ args.connectors_only) /\ has_connectors(neuron)

\* the visuals, warnings, calls and exception of the pass for the neuron at
\* position pos
NeuronPass(neuron0, neuron_color, object_id, pos, args, lines_ok) ==
    LET neuron == Radiused(neuron0, args)
        main == IF ~args.connectors_only
                THEN Dispatch(neuron, neuron_color, object_id, pos, args)
                ELSE Result(<<>>, <<>>, "none")
        cn   == IF WantConnectors(neuron, args)
                THEN connectors2gfx(neuron, neuron_color, object_id, pos, args, lines_ok)
                ELSE Result(<<>>, <<>>, "none")
    IN [prims |-> main.prims \o cn.prims,
        warns |-> main.warns,
        err   |-> cn.err,
        calls |-> (IF ~args.connectors_only THEN DispatchCall(neuron, pos) ELSE <<>>)
                  \o (IF WantConnectors(neuron, args)
                      THEN <<Call("connectors2gfx", pos)>> ELSE <<>>)]

----------------------------------------------------------------------------
(* The calls *)

\* the arguments in the order entry, clear, center, random_ids, color_by,
\* palette, shade_by, connectors, connectors_only, radius, soma,
\* synapse_layout, cn_colors
Args(e, cl, ce, ri, cb, pa, sh, cn, co, ra, so, sl, cc) ==
    [entry |-> e, clear |-> cl, center |-> ce, random_ids |-> ri,
     color_by |-> cb, palette |-> pa, shade_by |-> sh, connectors |-> cn,
     connectors_only |-> co, radius |-> ra, soma |-> so,
     synapse_layout |-> sl, cn_colors |-> cc]

\* synapse_layout: not passed, None, a dict without "display", or a dict
\* whose "display" is the value
Layouts == {"absent", "None", "empty", "circles", "lines", "triangles"}

\* the colour arguments (color_by, palette, shade_by)
ColorArgs == {<<FALSE, FALSE, FALSE>>, <<TRUE, FALSE, FALSE>>,
              <<TRUE, TRUE, FALSE>>, <<FALSE, FALSE, TRUE>>}

\* the conversion arguments <<colour arguments, connectors, radius,
\* synapse_layout>> of the batch specification: the colour arguments vary
\* with the connectors off, the connector arguments with the default
\* colours; one call shades and draws connectors
ConvDefault == <<<<FALSE, FALSE, FALSE>>, FALSE, FALSE, "None">>

ConvArgs ==
    {<<c, FALSE, FALSE, "None">> : c \in ColorArgs}
    \cup {<<<<FALSE, FALSE, FALSE>>, TRUE, r, l>> :
             r \in BOOLEAN, l \in Layouts \ {"absent"}}
    \cup {<<<<FALSE, FALSE, FALSE>>, FALSE, TRUE, "None">>,
          <<<<FALSE, FALSE, TRUE>>, TRUE, FALSE, "circles">>}

\* the viewer arguments <<clear, center, random_ids>>: every combination
\* with the default conversion and with the missing palette, the defaults
\* and their opposites with every other conversion
ViewerArgs(c) ==
    IF c = ConvDefault \/ c[1] = <<TRUE, FALSE, FALSE>>
    THEN BOOLEAN \X BOOLEAN \X BOOLEAN
    ELSE {<<FALSE, TRUE, FALSE>>, <<TRUE, FALSE, TRUE>>}

\* Viewer.add_neurons(x, ...): soma and connectors_only cannot be passed,
\* synapse_layout is always passed on (None by default)
AddNeuronsCall(v, c) ==
    Args("add_neurons", v[1], v[2], v[3], c[1][1], c[1][2], c[1][3], c[2],
         FALSE, c[3], TRUE, c[4], "None")

AddNeuronsCalls ==
    UNION {{AddNeuronsCall(v, c) : v \in ViewerArgs(c)} : c \in ConvArgs}

\* neuron2gfx(x, **kwargs) called as the registered converter:
\* <<connectors, connectors_only>>, soma, radius, synapse_layout, cn_colors
Neuron2gfxCall(color, co, so, r, l, cc) ==
    Args("neuron2gfx", FALSE, FALSE, FALSE, color[1], color[2], color[3],
         co[1], co[2], r, so, l, cc)

Neuron2gfxCalls ==
    {Neuron2gfxCall(<<FALSE, FALSE, FALSE>>, co, so, FALSE, l, "None") :
        co \in {<<FALSE, FALSE>>, <<TRUE, FALSE>>, <<FALSE, TRUE>>},
        so \in BOOLEAN, l \in {"absent", "circles"}}
    \cup {Neuron2gfxCall(<<FALSE, FALSE, FALSE>>, <<TRUE, FALSE>>, TRUE, r, l, "neuron") :
             r \in BOOLEAN, l \in {"absent", "triangles"}}

\* the neurons of the batch specification
Samples ==
    {TreeNeuron(1, <<3>>, 0, 0),        \* root -> mid -> leaf
     TreeNeuron(1, <<3, 2>>, 1, 2),     \* branched, a soma, two connector types
     TreeNeuron(2, <<1>>, 0, 1),        \* a single node
     TreeNeuron(2, <<>>, 0, 0),         \* no nodes
     MeshNeuron(2, 2, 1),
     MeshNeuron(3, 0, 0),               \* no faces
     Dotprops(3, 2),
     Dotprops(3, 0),                    \* no points
     VoxelNeuron(4, 1),
     OtherNeuron(4)}

Batches == UNION {[1..n -> Samples] : n \in 0..MaxBatch}

\* x: one neuron, a NeuronList, a skeletor Skeleton, or something else
Inputs ==
    {[form |-> "neuron", items |-> <<n>>] : n \in Samples}
    \cup {[form |-> "list", items |-> b] : b \in Batches}
    \cup {[form |-> "skeletor", items |-> <<TreeNeuron(5, <<2>>, 0, 0)>>],
          [form |-> "other", items |-> <<>>]}

\* an object that is in the scene before the call
Old == Visual("Mesh", "neurites", [id |-> 0], 0, 0, TRUE, <<>>, <<>>)

InitWith(inputs, args) ==
    /\ x \in inputs
    /\ kw \in args
    /\ pc = kw.entry
    /\ colormap = <<>>
    /\ i = 0
    /\ visuals = <<>>
    /\ uuids = 0
    /\ calls = <<>>
    /\ log = <<>>
    /\ err = "none"
    /\ scene = <<Old>>
    /\ events = <<>>
    /\ k = 0

Init == InitWith(Inputs, AddNeuronsCalls \cup Neuron2gfxCalls)

\* The geometry specification: one skeleton or point cloud of every shape
\* within the bounds, converted with and without connectors, somas and
\* per-vertex colours.
SegLens ==
    UNION {[1..n -> 2..MaxSegLen] : n \in 1..MaxSegs} \cup {<<MaxSomas>>}

GeomNeurons ==
    {TreeNeuron(1, lens, ns, nc) :
        lens \in SegLens, ns \in 0..MaxSomas, nc \in 0..MaxConn}
    \cup {Dotprops(1, np) : np \in 0..MaxSegs}

GeomInputs ==
    {[form |-> "neuron", items |-> <<n>>] :
        n \in {g \in GeomNeurons : \A m \in DOMAIN g.soma :
                                      g.soma[m] \in DOMAIN g.nodes \cup {None}}}

\* <<connectors, synapse_layout>>
GeomConnectorArgs ==
    {<<FALSE, "absent">>, <<TRUE, "absent">>, <<TRUE, "lines">>,
     <<TRUE, "circles">>, <<TRUE, "triangles">>}

GeomColorArgs == ColorArgs \ {<<TRUE, FALSE, FALSE>>}

GeomCalls ==
    {Neuron2gfxCall(c, <<cn[1], FALSE>>, so, FALSE, cn[2], "None") :
        c \in GeomColorArgs, cn \in GeomConnectorArgs, so \in BOOLEAN}
    \cup {AddNeuronsCall(<<FALSE, TRUE, FALSE>>, <<c, cn[1], FALSE, cn[2]>>) :
             c \in GeomColorArgs, cn \in GeomConnectorArgs \ {<<FALSE, "absent">>}}

InitGeom == InitWith(GeomInputs, GeomCalls)

----------------------------------------------------------------------------
(* The steps of a call *)

\* mutant of uuid4: the object id is drawn once, before the loop
uuid4Once(n) == 1
\* uuid.uuid4() after n earlier draws
uuid4(n) == n + 1

\* mutant of NeuronColor: every neuron gets the first colour
NeuronColorFirst(cmap, idx) == cmap[1]
\* neuron_color = colormap[i]
NeuronColor(cmap, idx) == cmap[idx]

\* mutant of PaletteMissing: the palette is not checked
PaletteUnchecked(args) == FALSE
\* color_by is given and palette is not
PaletteMissing(args) == args.color_by /\ ~args.palette

Raise(e) ==
    /\ pc' = "raised"
    /\ err' = e
    /\ visuals' = <<>>

\* add_neurons, up to the call of neuron2gfx: the skeletor shortcut, the
\* type check and the duplicate-id warning
CheckInput ==
    /\ pc = "add_neurons"
    /\ LET y == IF x.form = "skeletor" THEN [x EXCEPT !.form = "neuron"] ELSE x
       IN /\ x' = y
          /\ IF y.form \notin {"neuron", "list"}
             THEN Raise("ValueError") /\ UNCHANGED log
             ELSE /\ pc' = "neuron2gfx"
                  /\ log' = IF y.form = "list" /\ is_degenerated(y.items)
                            THEN Append(log, Warn("duplicate_ids", 0))
                            ELSE log
                  /\ UNCHANGED <<err, visuals>>
    /\ UNCHANGED <<kw, colormap, i, uuids, calls, scene, events, k>>

\* neuron2gfx, up to its loop: the type check, the palette check, the
\* colour map and the alpha map
ResolveColors ==
    /\ pc = "neuron2gfx"
    /\ IF x.form \notin {"neuron", "list"}
       THEN Raise("TypeError") /\ UNCHANGED <<x, colormap, i, calls>>
       ELSE IF PaletteMissing(kw)
       THEN Raise("ValueError") /\ UNCHANGED <<x, colormap, i, calls>>
       ELSE /\ x' = [x EXCEPT !.form = "list"]
            /\ colormap' = ResolveColormap(x.items, kw)
            /\ calls' = calls \o ResolveCalls(kw)
            /\ i' = 1
            /\ visuals' = <<>>
            /\ pc' = "loop"
            /\ UNCHANGED err
    /\ UNCHANGED <<kw, uuids, log, scene, events, k>>

\* one pass of the loop of neuron2gfx
ConvertNeuron ==
    /\ pc = "loop"
    /\ i <= Len(x.items)
    /\ \E lines_ok \in BOOLEAN :
         LET r == NeuronPass(x.items[i], NeuronColor(colormap, i), uuid4(uuids),
                             i, kw, lines_ok)
         IN /\ uuids' = uuids + 1
            /\ calls' = calls \o r.calls
            /\ log' = log \o r.warns
            /\ IF r.err # "none"
               THEN Raise(r.err) /\ UNCHANGED i
               ELSE /\ visuals' = visuals \o r.prims
                    /\ i' = i + 1
                    /\ UNCHANGED <<pc, err>>
    /\ UNCHANGED <<x, kw, colormap, scene, events, k>>

\* neuron2gfx returns the visuals
ReturnVisuals ==
    /\ pc = "loop"
    /\ i > Len(x.items)
    /\ pc' = IF kw.entry = "add_neurons" THEN "clear" ELSE "done"
    /\ UNCHANGED <<x, kw, colormap, i, visuals, uuids, calls, log, err, scene,
                   events, k>>

Event(op, n) == [op |-> op, idx |-> n, center |-> FALSE]

\* if clear: self.clear()
Clear ==
    /\ pc = "clear"
    /\ IF kw.clear
       THEN scene' = <<>> /\ events' = Append(events, Event("clear", 0))
       ELSE UNCHANGED <<scene, events>>
    /\ k' = 1
    /\ pc' = "insert"
    /\ UNCHANGED <<x, kw, colormap, i, visuals, uuids, calls, log, err>>

\* for v in vis: self._add_to_scene(v, center=False)
Insert ==
    /\ pc = "insert"
    /\ k <= Len(visuals)
    /\ scene' = Append(scene, visuals[k])
    /\ events' = Append(events, Event("add", k))
    /\ k' = k + 1
    /\ UNCHANGED <<x, kw, pc, colormap, i, visuals, uuids, calls, log, err>>

\* mutant of CenterCamera: the camera is centered without waiting for the
\* last insert
CenterCameraEarly ==
    /\ pc = "insert"
    /\ events' = IF kw.center THEN Append(events, Event("center_camera", 0))
                 ELSE events
    /\ pc' = "done"
    /\ UNCHANGED <<x, kw, colormap, i, visuals, uuids, calls, log, err, scene, k>>

\* if center: self.center_camera()
CenterCamera ==
    /\ pc = "insert"
    /\ k > Len(visuals)
    /\ events' = IF kw.center THEN Append(events, Event("center_camera", 0))
                 ELSE events
    /\ pc' = "done"
    /\ UNCHANGED <<x, kw, colormap, i, visuals, uuids, calls, log, err, scene, k>>

Next ==
    \/ CheckInput
    \/ ResolveColors
    \/ ConvertNeuron
    \/ ReturnVisuals
    \/ Clear
    \/ Insert
    \/ CenterCamera

Spec == Init /\ [][Next]_vars

SpecGeom == InitGeom /\ [][Next]_vars

----------------------------------------------------------------------------
(* Vocabulary of the claims *)

\* neuron2gfx returned its list
Returned == pc \in {"clear", "insert", "done"}

ViaAddNeurons == kw.entry = "add_neurons"

IsPrefix(a, b) == Len(a) <= Len(b) /\ \A n \in DOMAIN a : a[n] = b[n]

\* the positions of the list whose pass of the loop has ended without an
\* exception
Passed == {p \in DOMAIN x.items : p < i}

\* the visuals of the list built from position p
VisualsAt(p) == SelectIdx(visuals, [n \in DOMAIN visuals |-> visuals[n].pos = p])

PartsAt(p, part) ==
    SelectIdx(visuals, [n \in DOMAIN visuals |->
                           visuals[n].pos = p /\ visuals[n].neuron_part = part])

\* the neuron at position p reaches the connector converter as a mesh
IsMesh(p) == Radiused(x.items[p], kw).kind = "MeshNeuron"

ConnectorsRequested == kw.connectors \/ kw.connectors_only

\* the resolved display mode exists and is neither "circles" nor "lines"
UnsupportedMode ==
    /\ kw.synapse_layout # "None"
    /\ DisplayMode(kw.synapse_layout) \notin {"circles", "lines"}

ConnectorTypes(neuron) ==
    Unique([m \in DOMAIN neuron.connectors |-> neuron.connectors[m].type])

----------------------------------------------------------------------------
(* C1 *)

\* what the viewer is asked to do by a call of add_neurons that returns
ExpectedEvents ==
    (IF kw.clear THEN <<Event("clear", 0)>> ELSE <<>>)
    \o [n \in 1..Len(visuals) |-> Event("add", n)]
    \o (IF kw.center THEN <<Event("center_camera", 0)>> ELSE <<>>)

\* C1: a call of add_neurons that does not raise asks nothing of the viewer
\* before the conversion has returned; then it clears the scene once iff
\* clear, then inserts every visual once, in the order of the returned
\* list and with center=False, then centers the camera once iff center.
C1_AddNeuronsOrder ==
    /\ ~Returned => events = <<>> /\ scene = <<Old>>
    /\ Returned => IsPrefix(events, ExpectedEvents)
    /\ \A n \in DOMAIN events : events[n].op = "add" => ~events[n].center
    /\ pc = "done" /\ ViaAddNeurons =>
          /\ events = ExpectedEvents
          /\ scene = (IF kw.clear THEN <<>> ELSE <<Old>>) \o visuals
    /\ pc = "done" /\ ~ViaAddNeurons => events = <<>>

C1_Witness ==
    /\ pc = "done" /\ ViaAddNeurons /\ kw.clear /\ kw.center
    /\ Len(visuals) >= 3
    /\ events = ExpectedEvents

----------------------------------------------------------------------------
(* C2 *)

\* C2 as stated: with connectors requested and an unsupported display mode,
\* no neuron that carries connectors gets through the loop, whatever its
\* kind, and no connector visual exists unless the mode is "circles" or
\* "lines".
C2_Original ==
    /\ \A n \in DOMAIN visuals : visuals[n].neuron_part = "connectors" =>
          /\ kw.synapse_layout # "None"
          /\ DisplayMode(kw.synapse_layout) \in {"circles", "lines"}
    /\ UnsupportedMode /\ ConnectorsRequested =>
          \A p \in Passed : ~has_connectors(x.items[p])

\* C2, amended: the same for every neuron that does not reach the connector
\* converter as a mesh: the call ends with ValueError and returns nothing.
\* For a MeshNeuron, and for a skeleton turned into a mesh by `radius`, the
\* mode is not looked at: one point visual per connector type is built.
C2_UnsupportedModeRaises ==
    /\ \A n \in DOMAIN visuals :
          visuals[n].neuron_part = "connectors" /\ ~IsMesh(visuals[n].pos) =>
             /\ kw.synapse_layout # "None"
             /\ DisplayMode(kw.synapse_layout) \in {"circles", "lines"}
    /\ UnsupportedMode /\ ConnectorsRequested =>
          /\ \A p \in Passed : has_connectors(x.items[p]) =>
                /\ IsMesh(p)
                /\ Returned \/ pc = "loop" =>
                      /\ Len(PartsAt(p, "connectors")) = Len(ConnectorTypes(x.items[p]))
                      /\ \A v \in Range(PartsAt(p, "connectors")) : v.type = "Points"
          /\ pc = "raised" /\ i \in DOMAIN x.items =>
                /\ err = "ValueError"
                /\ visuals = <<>>
                /\ has_connectors(x.items[i])
                /\ ~IsMesh(i)

C2_Witness ==
    /\ UnsupportedMode /\ ConnectorsRequested
    /\ pc = "raised" /\ err = "ValueError" /\ i = 2
    /\ has_connectors(x.items[1])

----------------------------------------------------------------------------
(* C3 *)

\* C3 as stated: add_neurons given a list with duplicate ids warns about
\* them if and only if random_ids is false.
C3_Original ==
    (ViaAddNeurons /\ pc # "add_neurons" /\ x.form = "list"
        /\ is_degenerated(x.items)) =>
       ((Warn("duplicate_ids", 0) \in Range(log)) <=> ~kw.random_ids)

----------------------------------------------------------------------------
(* C4 *)

ValidInput == x.form \in {"neuron", "list"} \/ (ViaAddNeurons /\ x.form = "skeletor")

\* C4: with color_by given and no palette, a call on a valid input ends with
\* ValueError and nothing else has happened: no colour map, no library or
\* converter call, no visual, no uuid drawn, the scene and the camera
\* untouched.
C4_MissingPaletteNoEffect ==
    (kw.color_by /\ ~kw.palette /\ ValidInput) =>
       /\ pc \in {"add_neurons", "neuron2gfx", "raised"}
       /\ pc = "raised" => err = "ValueError"
       /\ colormap = <<>> /\ calls = <<>> /\ visuals = <<>> /\ uuids = 0
       /\ scene = <<Old>> /\ events = <<>>

C4_Witness ==
    /\ kw.color_by /\ ~kw.palette /\ ViaAddNeurons /\ kw.clear /\ kw.center
    /\ x.form = "list" /\ Len(x.items) = 2
    /\ pc = "raised" /\ err = "ValueError"

----------------------------------------------------------------------------
(* C5 *)

\* the list of visuals is the one the loop has built (no exception has
\* discarded it)
Intact == pc = "loop" \/ Returned

----------------------------------------------------------------------------
(* C6 *)

PartRank(part) ==
    CASE part = "neurites" -> 1 [] part = "soma" -> 2 [] part = "connectors" -> 3

\* C6: the colour map has one entry per neuron before any converter runs;
\* the neurite visual of position p carries entry p (a soma visual one row
\* of it), and with shade_by entry p is the colour of p with the alpha of
\* p's vertices; the list is ordered by position and, within a position,
\* neurites first, then somas, then connectors.
C6_ColorsAndOrder ==
    /\ \A a, b \in DOMAIN calls : calls[a].pos = 0 /\ calls[b].pos > 0 => a < b
    /\ (\E b \in DOMAIN calls : calls[b].pos > 0) =>
          /\ Len(colormap) = Len(x.items)
          /\ calls[1].pos = 0
    /\ Intact => Len(colormap) = Len(x.items)
    /\ Intact /\ kw.shade_by =>
          \A p \in DOMAIN colormap :
             /\ colormap[p].ndim = 2
             /\ Len(colormap[p].rows) = NumVertices(x.items[p])
             /\ \A v \in DOMAIN colormap[p].rows :
                   colormap[p].rows[v] = Color(IF kw.color_by THEN 10 * p + v ELSE p, 2 + v)
    /\ \A n \in DOMAIN visuals :
          /\ visuals[n].neuron_part = "neurites" =>
                visuals[n].colors = colormap[visuals[n].pos].rows
          /\ visuals[n].neuron_part = "soma" =>
                visuals[n].colors[1] \in Range(colormap[visuals[n].pos].rows)
    /\ \A a, b \in DOMAIN visuals : a < b =>
          /\ visuals[a].pos <= visuals[b].pos
          /\ visuals[a].pos = visuals[b].pos =>
                PartRank(visuals[a].neuron_part) <= PartRank(visuals[b].neuron_part)
    /\ \A p \in DOMAIN x.items : Len(PartsAt(p, "neurites")) <= 1

C6_Witness ==
    /\ Returned /\ Len(x.items) = 2 /\ kw.shade_by /\ kw.connectors
    /\ PartsAt(1, "neurites") # <<>> /\ PartsAt(1, "soma") # <<>>
    /\ PartsAt(1, "connectors") # <<>>
    /\ PartsAt(2, "neurites") # <<>> /\ PartsAt(2, "connectors") # <<>>

----------------------------------------------------------------------------
(* C7 *)

\* the skeleton the skeleton converter is given for position p
SkeletonAt(p) ==
    IF x.items[p].kind = "Dotprops" THEN to_skeleton(x.items[p]) ELSE x.items[p]

\* the skeleton converter ran for position p, on at least two nodes
SkeletonConverted(p) ==
    /\ p \in Passed /\ Intact
    /\ ~kw.connectors_only
    /\ \/ x.items[p].kind = "TreeNeuron" /\ ~kw.radius
       \/ x.items[p].kind = "Dotprops" /\ x.items[p].points # <<>>
    /\ Len(SkeletonAt(p).nodes) >= 2

ValidSomas(neuron) ==
    SelectIdx(neuron.soma, [n \in DOMAIN neuron.soma |-> neuron.soma[n] # None])

SomaWarned(p) == Warn("many_somas", p) \in Range(log)

\* what C7 says of the visuals of position p, apart from the warning
SkeletonVisualsAt(p) ==
    LET sk   == SkeletonAt(p)
        vs   == VisualsAt(p)
        want == IF Len(sk.soma) >= SomaLimit \/ ~kw.soma THEN <<>> ELSE ValidSomas(sk)
    IN /\ Len(PartsAt(p, "neurites")) = 1
       /\ vs[1].type = "Line" /\ vs[1].neuron_part = "neurites"
       /\ Len(PartsAt(p, "soma")) = Len(want)
       /\ \A m \in DOMAIN want :
             /\ vs[1 + m].type = "Sphere" /\ vs[1 + m].neuron_part = "soma"
             /\ vs[1 + m].coords = <<sk.nodes[want[m]]>>
       /\ (sk.segments = <<<<3, 2, 1>>>> /\ sk.soma = <<None>>
              /\ ~has_connectors(sk)) => Len(vs) = 1

\* C7 as stated: a skeleton of two or more nodes gives one neurite line,
\* then one sphere per soma that is not None (none with soma rendering
\* off), except that 10 or more reported somas give no sphere and a warning.
C7_Original ==
    \A p \in DOMAIN x.items : SkeletonConverted(p) =>
       /\ SkeletonVisualsAt(p)
       /\ SomaWarned(p) <=> Len(SkeletonAt(p).soma) >= SomaLimit

\* C7, amended: the same, the warning being logged only when soma rendering
\* is on.
C7_SomaLimit ==
    \A p \in DOMAIN x.items : SkeletonConverted(p) =>
       /\ SkeletonVisualsAt(p)
       /\ SomaWarned(p) <=> (kw.soma /\ Len(SkeletonAt(p).soma) >= SomaLimit)

C7_Witness ==
    /\ Returned /\ kw.soma /\ SkeletonConverted(1)
    /\ Len(x.items[1].soma) = SomaLimit
    /\ SomaWarned(1)
    /\ Len(PartsAt(1, "neurites")) = 1 /\ PartsAt(1, "soma") = <<>>

----------------------------------------------------------------------------
(* C8 *)

\* the item at position p is one of the anomalies
Anomalous(p) ==
    LET n == x.items[p]
    IN \/ n.kind = "TreeNeuron" /\ Len(n.nodes) <= 1
       \/ n.kind = "MeshNeuron" /\ n.faces = 0
       \/ n.kind = "Dotprops" /\ n.points = <<>>
       \/ n.kind = "BaseNeuron"

\* a skeleton that `radius` hands to tree2meshneuron
UnderRadius(p) == kw.radius /\ x.items[p].kind = "TreeNeuron"

WarnedAt(p) == \E w \in Range(log) : w.pos = p

\* the anomalies that log: a skeleton reaching the skeleton converter and
\* a neuron of no known kind reaching the dispatch
LoggedAnomaly(p) ==
    /\ ~kw.connectors_only
    /\ x.items[p].kind \in {"TreeNeuron", "BaseNeuron"}

\* what C8 says apart from the warning: an anomalous item adds no neurite
\* and no soma visual and ends the call only through its connectors; the
\* loop goes on to the end of the list; every other neuron has its one
\* neurite visual, and its visuals are those of a pass over that neuron
\* alone with the colour and place it has in the list
SkippedNotAborted ==
    /\ \A p \in Passed : Anomalous(p) /\ ~UnderRadius(p) /\ Intact =>
          PartsAt(p, "neurites") = <<>> /\ PartsAt(p, "soma") = <<>>
    /\ (pc = "raised" /\ i \in DOMAIN x.items /\ Anomalous(i) /\ ~UnderRadius(i)) =>
          WantConnectors(x.items[i], kw)
    /\ Returned => Passed = DOMAIN x.items
    /\ \A q \in Passed : ~Anomalous(q) /\ Intact =>
          /\ ~kw.connectors_only => Len(PartsAt(q, "neurites")) = 1
          /\ VisualsAt(q) = NeuronPass(x.items[q], colormap[q], q, q, kw, TRUE).prims

\* C8 as stated: every anomalous item is skipped with a warning for it
\* (looked at where the per-kind converters run).
C8_Original ==
    /\ SkippedNotAborted
    /\ \A p \in Passed :
          Anomalous(p) /\ ~UnderRadius(p) /\ ~kw.connectors_only => WarnedAt(p)

\* C8, amended: a warning is logged for a skeleton with 0 or 1 nodes and for
\* a neuron of no known kind (when the per-kind converters run at all); a
\* mesh without faces and a dotprop without points are skipped silently.
C8_AnomaliesSkipped ==
    /\ SkippedNotAborted
    /\ \A p \in Passed : Anomalous(p) /\ ~UnderRadius(p) =>
          (WarnedAt(p) <=> LoggedAnomaly(p))

C8_Witness ==
    /\ Returned /\ Len(x.items) = 2
    /\ x.items[1].kind = "MeshNeuron" /\ Anomalous(1) /\ ~WarnedAt(1)
    /\ x.items[2].kind = "TreeNeuron" /\ Anomalous(2) /\ WarnedAt(2)
    /\ visuals = <<>>

----------------------------------------------------------------------------
(* C9 *)

\* the skeleton at position p has its connectors drawn in "lines" mode
LinesRequested(p) ==
    /\ x.items[p].kind = "TreeNeuron" /\ ~kw.radius
    /\ WantConnectors(x.items[p], kw)
    /\ kw.synapse_layout # "None"
    /\ DisplayMode(kw.synapse_layout) = "lines"

\* C9 as stated: in "lines" mode the connector converter returns, for each
\* connector type of a skeleton, a line built from the 3k rows connector
\* position, owning node position, break row.
C9_Original ==
    \A p \in DOMAIN x.items : LinesRequested(p) =>
       /\ ~(pc = "raised" /\ i = p)
       /\ p \in Passed /\ Intact =>
             LET types == ConnectorTypes(x.items[p])
                 cns   == PartsAt(p, "connectors")
             IN /\ Len(cns) = Len(types)
                /\ \A t \in DOMAIN types :
                      /\ cns[t].type = "Line"
                      /\ cns[t].geometry
                      /\ Len(cns[t].coords) = 3 * Len(ThisCn(x.items[p], types[t]))
                      /\ cns[t].coords = ConnectorLineCoords(x.items[p],
                                             ThisCn(x.items[p], types[t]))

----------------------------------------------------------------------------
(* C10 *)

\* the rows of the line are the segments' points, a break row after each
SegmentRows(coords, neuron) ==
    LET segs == neuron.segments
    IN /\ Len(coords) = SumLen(segs) + Len(segs)
       /\ \A s \in DOMAIN segs :
             LET off == SumLen(SubSeq(segs, 1, s - 1)) + (s - 1)
             IN /\ \A q \in DOMAIN segs[s] :
                      coords[off + q] = neuron.nodes[segs[s][q]]
                /\ coords[off + Len(segs[s]) + 1] = NaN

\* the colours have a row for every row of the coordinates, a break row
\* where the coordinates have one
ColorsMatch(line) ==
    /\ Len(line.colors) = Len(line.coords)
    /\ \A r \in DOMAIN line.coords :
          (line.coords[r] = NaN) <=> (line.colors[r] = Color(NaN, NaN))

\* the coordinate half of C10
C10_Coords ==
    \A p \in DOMAIN x.items : SkeletonConverted(p) =>
       SegmentRows(PartsAt(p, "neurites")[1].coords, SkeletonAt(p))

\* C10 as stated: the neurite line of a skeleton gets the segments' points
\* with a break row after each segment, and with per-node colours a colour
\* sequence of the same length with break rows at the same places.
C10_Original ==
    \A p \in DOMAIN x.items : SkeletonConverted(p) =>
       /\ SegmentRows(PartsAt(p, "neurites")[1].coords, SkeletonAt(p))
       /\ colormap[p].ndim = 2 => ColorsMatch(PartsAt(p, "neurites")[1])

----------------------------------------------------------------------------
(* C11 *)

\* add_neurons(x, connectors=True), every other option at its default
DefaultConnectorsCall ==
    /\ ViaAddNeurons /\ kw.connectors /\ ~kw.connectors_only
    /\ ~kw.clear /\ kw.center /\ ~kw.random_ids
    /\ ~kw.color_by /\ ~kw.palette /\ ~kw.shade_by
    /\ ~kw.radius /\ kw.soma
    /\ kw.synapse_layout = "None" /\ kw.cn_colors = "None"

\* the positions of the input whose neuron has connectors
WithConnectors == {p \in DOMAIN x.items : has_connectors(x.items[p])}

\* the objects of the scene built from position p
SceneAt(p) == SelectIdx(scene, [n \in DOMAIN scene |-> scene[n].pos = p])

\* the call is in its loop at a neuron with connectors, or past one
ReachedConnectors == \E p \in WithConnectors : i >= p

\* C11 as stated: add_neurons with connectors=True and every other option
\* at its default (synapse_layout=None) on a neuron with connectors does not
\* raise, and once it has returned the scene holds, after the neuron's
\* neurite primitive, one connector primitive per connector type of the
\* neuron.
C11_Original ==
    DefaultConnectorsCall /\ WithConnectors # {} =>
       /\ pc # "raised"
       /\ pc = "done" =>
             \A p \in WithConnectors :
                LET objs == SceneAt(p)
                    cns  == SelectIdx(objs, [n \in DOMAIN objs |->
                                objs[n].neuron_part = "connectors"])
                IN /\ Len(cns) = Len(ConnectorTypes(x.items[p]))
                   /\ \A a, b \in DOMAIN objs :
                         /\ objs[a].neuron_part = "neurites"
                         /\ objs[b].neuron_part = "connectors"
                         => a < b

\* what the code does in that call: the connector converter raises
\* TypeError at the first neuron with connectors, and nothing of the call
\* reaches the scene
C11_DefaultLayoutRaises ==
    DefaultConnectorsCall /\ ReachedConnectors /\ pc # "loop" =>
       /\ pc = "raised" /\ err = "TypeError"
       /\ \A n \in DOMAIN scene : scene[n] = Old

====
